---- MODULE Spec2Model ----
(***************************************************************************)
(* The authenticated API-access layer: the token store (tokenStorage.ts)   *)
(* and the fetch wrapper with single-flight token refresh (http.ts:        *)
(* refreshTokens, parseResponse, apiFetch).                                *)
(*                                                                         *)
(* Scheduling model.  The runtime is a single-threaded event loop.  One    *)
(* action of this module is one task of the loop together with the whole   *)
(* microtask checkpoint that follows it: a network event settles one       *)
(* promise, and every continuation that becomes runnable because of it     *)
(* (then/catch/finally handlers, the resumption of every async function    *)
(* awaiting the settled promise) runs before the next network event is     *)
(* delivered.  The suspension points are the awaits on fetch(), on         *)
(* response.json(), on response.text() and on the shared refresh promise.  *)
(***************************************************************************)
EXTENDS Integers, Sequences, FiniteSets, TLC

\* Number of logical apiFetch calls issued by the application.
MaxCalls == 2
\* Number of refresh network calls the model lets the client issue.
MaxRefresh == 2

CallIds == 1..MaxCalls

\* What localStorage.getItem returns for an absent key; also "no header".
Null == "<null>"
\* A member missing from a parsed JSON object.
Undef == "<undefined>"
EmptyStr == ""

ACCESS_TOKEN_KEY == "accessToken"
REFRESH_TOKEN_KEY == "refreshToken"

\* JavaScript truthiness of a string | null | undefined value.
Truthy(v) == v \notin {Null, Undef, EmptyStr}

\* HTTP statuses a server answers with: success with body, no content,
\* unauthorized, another failure.
Statuses == {200, 204, 401, 500}
ResponseOk(st) == st \in 200..299

\* What response.text() delivers: nothing, JSON text, text that is not JSON.
Bodies == {"empty", "json", "invalid"}

\* The k-th pair the auth server hands out (k = 0: the pair of the login that
\* preceded the modelled run).
AccessTokenOf(k) == "a" \o ToString(k)
RefreshTokenOf(k) == "r" \o ToString(k)

VARIABLES
    browser,         \* typeof window !== "undefined"
    localStorage,    \* the two keys of the token store
    refreshPromise,  \* http.ts module variable: 0 = null, k = promise of refresh k
    refreshes,       \* the refresh network calls issued so far, in order
    calls,           \* the logical apiFetch calls
    session,         \* AuthContext.tsx: the provider's state and its keys
    probe            \* the application under examination of one function

vars == <<browser, localStorage, refreshPromise, refreshes, calls, session,
          probe>>

\* No function is under examination.
NoProbe == [fn |-> "none"]

\* The session provider is not rendered.
NoSession == [mounted |-> FALSE]

----------------------------------------------------------------------------
\* tokenStorage.ts

NoTokens == [k \in {ACCESS_TOKEN_KEY, REFRESH_TOKEN_KEY} |-> Null]

StoredTokens(a, r) ==
    [k \in {ACCESS_TOKEN_KEY, REFRESH_TOKEN_KEY} |->
        IF k = ACCESS_TOKEN_KEY THEN a ELSE r]

isBrowser == browser

getAccessToken(ls) == IF ~isBrowser THEN Null ELSE ls[ACCESS_TOKEN_KEY]

getRefreshToken(ls) == IF ~isBrowser THEN Null ELSE ls[REFRESH_TOKEN_KEY]

\* A store whose setTokens is interrupted between its two writes.
setTokensAccessOnly(ls, accessToken, refreshToken) ==
    IF ~isBrowser THEN ls
    ELSE [ls EXCEPT ![ACCESS_TOKEN_KEY] = accessToken]

setTokens(ls, accessToken, refreshToken) ==
    IF ~isBrowser THEN ls
    ELSE [ls EXCEPT ![ACCESS_TOKEN_KEY] = accessToken,
                    ![REFRESH_TOKEN_KEY] = refreshToken]

\* A store whose clearTokens forgets the refresh token.
clearTokensAccessOnly(ls) ==
    IF ~isBrowser THEN ls
    ELSE [ls EXCEPT ![ACCESS_TOKEN_KEY] = Null]

clearTokens(ls) ==
    IF ~isBrowser THEN ls
    ELSE [ls EXCEPT ![ACCESS_TOKEN_KEY] = Null, ![REFRESH_TOKEN_KEY] = Null]

----------------------------------------------------------------------------
\* http.ts: apiFetch, the synchronous segments

\* A call that has not been made yet.  The fields up to status are the
\* parameters and locals of apiFetch; dispatches, rid and refreshed record
\* what the call has done so far.
IdleCall ==
    [pc            |-> "idle",   \* idle | fetch | refresh | text | done
     requiresAuth  |-> TRUE,
     shouldRetry   |-> TRUE,
     auth          |-> Null,     \* Authorization token of the current dispatch
     tokAtDispatch |-> Null,     \* stored access token when it was dispatched
     status        |-> 0,        \* response.status of the latest response
     aborted       |-> FALSE,    \* options.signal has been aborted
     dispatches    |-> 0,        \* network calls made for this logical call
     rid           |-> -1,       \* -1: refreshTokens not invoked; 0: it returned
                                 \* false at once; k: the call awaited refresh k
     refreshed     |-> "none",   \* none | true | false: what the await yielded
     outcome       |-> "none",   \* none | value | ApiError | SyntaxError
                                 \* | TransportError
     errStatus     |-> 0]        \* ApiError.status

\* apiFetch has returned or thrown: its frame is gone, the caller holds the
\* outcome.
Done(outcome, errStatus) ==
    [IdleCall EXCEPT !.pc = "done", !.outcome = outcome,
                     !.errStatus = errStatus]

\* A dispatcher that forgets the auth-required flag.
AuthHeaderAlways(requiresAuth, ls) ==
    IF Truthy(getAccessToken(ls)) THEN getAccessToken(ls) ELSE Null

\* Lines 268-273: the Authorization header of a dispatch.
AuthHeader(requiresAuth, ls) ==
    IF requiresAuth /\ Truthy(getAccessToken(ls))
    THEN getAccessToken(ls)
    ELSE Null

\* Lines 248-281: build the request and issue fetch(); the call suspends.
Dispatch(c, ls, shouldRetry) ==
    [c EXCEPT !.pc = "fetch",
              !.shouldRetry = shouldRetry,
              !.auth = AuthHeader(c.requiresAuth, ls),
              !.tokAtDispatch = getAccessToken(ls),
              !.status = 0,
              !.dispatches = @ + 1]

\* A retry that re-sends the headers built for the first attempt.
RetryDispatchStaleHeaders(c, ls) ==
    [Dispatch(c, ls, FALSE) EXCEPT !.auth = c.auth]

\* A retry that may itself be retried: apiFetch(path, options, true).
RetryDispatchRetrying(c, ls) == Dispatch(c, ls, TRUE)

\* Line 286: the retry, apiFetch(path, options, false).
RetryDispatch(c, ls) == Dispatch(c, ls, FALSE)

\* A parser that reads the body of every response, 204 included.
ParseStartReadsBody(c, st) == [c EXCEPT !.pc = "text", !.status = st]

\* Lines 224-229: parseResponse up to its await of response.text().
ParseStart(c, st) ==
    IF st = 204
    THEN Done("value", 0)
    ELSE [c EXCEPT !.pc = "text", !.status = st]

\* Lines 230-240: parseResponse after response.text() delivered the body.
ParseFinish(c, body) ==
    IF body = "invalid"
    THEN Done("SyntaxError", 0)
    ELSE IF ~ResponseOk(c.status)
    THEN Done("ApiError", c.status)
    ELSE Done("value", 0)

\* Line 250: options.requiresAuth ?? true.
RequiresAuthOptions == {"undefined", "true", "false"}
RequiresAuth(option) == option # "false"

\* Line 283: the condition under which a response triggers the refresh.
NeedsRefresh(c, st) == st = 401 /\ c.requiresAuth /\ c.shouldRetry

\* A dispatcher that leaves the tokens in place after a failed refresh.
AfterFailedRefreshKeeps(ls) == ls

\* Line 288: what a failed refresh does to the token store.
AfterFailedRefresh(ls) == clearTokens(ls)

\* Lines 285-291: apiFetch resumed with the value of await refreshTokens().
AfterRefresh(c, result, ls) ==
    IF result
    THEN RetryDispatch([c EXCEPT !.refreshed = "true"], ls)
    ELSE ParseStart([c EXCEPT !.refreshed = "false"], c.status)

----------------------------------------------------------------------------
\* http.ts: refreshTokens

\* A coordinator without the in-flight check.
RefreshInFlightIgnored == FALSE

\* Line 188: a refresh is in flight.
RefreshInFlight == refreshPromise # 0

\* A coordinator without the missing-token check.
NoRefreshTokenIgnored(ls) == FALSE

\* Line 193: there is no refresh token to send.
NoRefreshToken(ls) == ~Truthy(getRefreshToken(ls))

\* Lines 197-201: the refresh request; JSON_HEADERS carry no Authorization.
RefreshRequest(ls) ==
    [phase   |-> "fetch",    \* fetch | json | settled
     sent    |-> getRefreshToken(ls),
     auth    |-> Null,
     resp    |-> "pending",  \* pending | ok | notok | neterr
     body    |-> "pending",  \* pending | parsed | invalid
     data    |-> NoTokens,   \* the parsed body's two members
     result  |-> FALSE,      \* what the promise resolved to, once settled
     atIssue |-> ls,         \* the store when the call was issued
     pre     |-> NoTokens,   \* the store when the settling handlers started
     post    |-> NoTokens]   \* the store when refreshTokens' handlers ended

\* A success check that looks at the access token only.
HasAccessTokenOnly(data) == Truthy(data[ACCESS_TOKEN_KEY])

\* Line 207: the body carries both tokens.
HasBothTokens(data) ==
    Truthy(data[ACCESS_TOKEN_KEY]) /\ Truthy(data[REFRESH_TOKEN_KEY])

\* Lines 202-216: the value the then/catch chain resolves to.
RefreshResult(resp, body, data) ==
    resp = "ok" /\ body = "parsed" /\ HasBothTokens(data)

\* A coordinator that evicts the tokens itself when the refresh fails.
RefreshStoreEvicting(ls, resp, body, data) ==
    IF resp = "ok" /\ body = "parsed"
       /\ Truthy(data[ACCESS_TOKEN_KEY]) /\ Truthy(data[REFRESH_TOKEN_KEY])
    THEN setTokens(ls, data[ACCESS_TOKEN_KEY], data[REFRESH_TOKEN_KEY])
    ELSE clearTokens(ls)

\* Lines 202-216: the store after the then/catch chain.
RefreshStore(ls, resp, body, data) ==
    IF RefreshResult(resp, body, data)
    THEN setTokens(ls, data[ACCESS_TOKEN_KEY], data[REFRESH_TOKEN_KEY])
    ELSE ls

\* A marker that is reset on success only (then instead of finally).
AfterFinallyOnSuccessOnly(result) == IF result THEN 0 ELSE refreshPromise

\* Lines 217-219: the marker after the finally handler of a refresh that
\* resolved to result.
AfterFinally(result) == 0

----------------------------------------------------------------------------
\* The state when the module is loaded: refreshPromise is null (line 185) and
\* no call has been made.  localStorage outlives the page: it is empty, or
\* it holds the pair an earlier session left there.  Without a window (server
\* rendering) there is no localStorage and the store is never touched.
Init ==
    /\ browser \in BOOLEAN
    /\ localStorage \in
         IF browser
         THEN {NoTokens, StoredTokens(AccessTokenOf(0), RefreshTokenOf(0))}
         ELSE {NoTokens}
    /\ refreshPromise = 0
    /\ refreshes = <<>>
    /\ calls = [c \in CallIds |-> IdleCall]
    /\ session = NoSession
    /\ probe = NoProbe

\* The application calls apiFetch(path, options): lines 243-281.
Call(c, option) ==
    /\ calls[c].pc = "idle"
    /\ \A d \in 1..(c - 1) : calls[d].pc # "idle"
    /\ calls' = [calls EXCEPT ![c] =
                   Dispatch([@ EXCEPT !.requiresAuth = RequiresAuth(option)],
                            localStorage, TRUE)]
    /\ UNCHANGED <<browser, localStorage, refreshPromise, refreshes, session,
                   probe>>

\* A dispatcher that treats a failed network call like a failed refresh and
\* clears the tokens.
FetchRejectsPurging(c) ==
    /\ calls[c].pc = "fetch"
    /\ calls' = [calls EXCEPT ![c] = Done("TransportError", 0)]
    /\ localStorage' = clearTokens(localStorage)
    /\ UNCHANGED <<browser, refreshPromise, refreshes, session, probe>>

\* fetch() of a dispatch rejects (unreachable, aborted): line 275 throws.
FetchRejects(c) ==
    /\ calls[c].pc = "fetch"
    /\ calls' = [calls EXCEPT ![c] = Done("TransportError", 0)]
    /\ UNCHANGED <<browser, localStorage, refreshPromise, refreshes, session,
                   probe>>

\* fetch() of a dispatch resolves with a response of status st: lines 283-291
\* and refreshTokens lines 187-222 up to the next suspension.
FetchResponds(c, st) ==
    /\ calls[c].pc = "fetch"
    /\ ~calls[c].aborted
    /\ LET me == [calls[c] EXCEPT !.status = st] IN
       IF ~NeedsRefresh(me, st)
       THEN /\ calls' = [calls EXCEPT ![c] = ParseStart(me, st)]
            /\ UNCHANGED <<localStorage, refreshPromise, refreshes>>
       ELSE IF RefreshInFlight
       THEN \* line 189: join the refresh in flight
            /\ calls' = [calls EXCEPT ![c] =
                           [me EXCEPT !.pc = "refresh", !.rid = refreshPromise]]
            /\ UNCHANGED <<localStorage, refreshPromise, refreshes>>
       ELSE IF NoRefreshToken(localStorage)
       THEN \* line 194: false at once; the call goes on in the same checkpoint
            /\ calls' = [calls EXCEPT ![c] =
                           AfterRefresh([me EXCEPT !.rid = 0], FALSE,
                                        localStorage)]
            /\ localStorage' = AfterFailedRefresh(localStorage)
            /\ UNCHANGED <<refreshPromise, refreshes>>
       ELSE \* lines 197-221: issue the refresh and await it
            /\ Len(refreshes) < MaxRefresh
            /\ refreshes' = Append(refreshes, RefreshRequest(localStorage))
            /\ refreshPromise' = Len(refreshes) + 1
            /\ calls' = [calls EXCEPT ![c] =
                           [me EXCEPT !.pc = "refresh",
                                      !.rid = Len(refreshes) + 1]]
            /\ UNCHANGED localStorage
    /\ UNCHANGED <<browser, session, probe>>

\* response.text() delivers the body: lines 229-240.
TextArrives(c, body) ==
    /\ calls[c].pc = "text"
    /\ ~calls[c].aborted
    /\ calls' = [calls EXCEPT ![c] = ParseFinish(@, body)]
    /\ UNCHANGED <<browser, localStorage, refreshPromise, refreshes, session,
                   probe>>

\* response.text() rejects (the connection broke while the body was read).
TextRejects(c) ==
    /\ calls[c].pc = "text"
    /\ calls' = [calls EXCEPT ![c] = Done("TransportError", 0)]
    /\ UNCHANGED <<browser, localStorage, refreshPromise, refreshes, session,
                   probe>>

\* The promise of refresh r settles: the then/catch chain has produced
\* (resp, body, data); the finally handler runs (lines 217-219) and every
\* apiFetch awaiting the promise resumes (lines 285-291).
Settle(r, resp, body, data) ==
    LET result  == RefreshResult(resp, body, data)
        ls1     == RefreshStore(localStorage, resp, body, data)
        waiters == {c \in CallIds : calls[c].pc = "refresh" /\ calls[c].rid = r}
    IN  /\ refreshes' = [refreshes EXCEPT ![r] =
                           [@ EXCEPT !.phase = "settled", !.resp = resp,
                                     !.body = body, !.data = data,
                                     !.result = result,
                                     !.pre = localStorage, !.post = ls1]]
        /\ refreshPromise' = AfterFinally(result)
        /\ calls' = [c \in CallIds |->
                       IF c \in waiters
                       THEN AfterRefresh(calls[c], result, ls1)
                       ELSE calls[c]]
        /\ localStorage' = IF result \/ waiters = {}
                           THEN ls1
                           ELSE AfterFailedRefresh(ls1)
        /\ UNCHANGED <<browser, session, probe>>

\* The refresh fetch() rejects: .catch(() => false), line 216.
RefreshFetchRejects(r) ==
    /\ r \in 1..Len(refreshes)
    /\ refreshes[r].phase = "fetch"
    /\ Settle(r, "neterr", "pending", NoTokens)

\* The refresh fetch() resolves: lines 202-206.
RefreshFetchResponds(r, ok) ==
    /\ r \in 1..Len(refreshes)
    /\ refreshes[r].phase = "fetch"
    /\ IF ok
       THEN \* line 206: await response.json()
            /\ refreshes' = [refreshes EXCEPT ![r] =
                               [@ EXCEPT !.phase = "json", !.resp = "ok"]]
            /\ UNCHANGED <<browser, localStorage, refreshPromise, calls,
                           session, probe>>
       ELSE \* line 204
            Settle(r, "notok", "pending", NoTokens)

\* What the refresh endpoint may put in a member of its answer to refresh r.
MemberValues(fresh) == {Undef, EmptyStr, fresh}

\* response.json() of the refresh response settles: lines 206-214; a body
\* that is not JSON rejects it (line 216).
RefreshJsonArrives(r, body, data) ==
    /\ r \in 1..Len(refreshes)
    /\ refreshes[r].phase = "json"
    /\ Settle(r, "ok", body, data)

Next ==
    \/ \E c \in CallIds, option \in RequiresAuthOptions : Call(c, option)
    \/ \E c \in CallIds : FetchRejects(c)
    \/ \E c \in CallIds, st \in Statuses : FetchResponds(c, st)
    \/ \E c \in CallIds, body \in Bodies : TextArrives(c, body)
    \/ \E c \in CallIds : TextRejects(c)
    \/ \E r \in 1..MaxRefresh : RefreshFetchRejects(r)
    \/ \E r \in 1..MaxRefresh, ok \in BOOLEAN : RefreshFetchResponds(r, ok)
    \/ \E r \in 1..MaxRefresh :
          \/ RefreshJsonArrives(r, "invalid", NoTokens)
          \/ \E a \in MemberValues(AccessTokenOf(r)),
                t \in MemberValues(RefreshTokenOf(r)) :
                RefreshJsonArrives(r, "parsed", StoredTokens(a, t))

Spec == Init /\ [][Next]_vars

\* The network answers every refresh request: the refresh fetch() and the
\* read of its body settle.
RefreshNetwork ==
    \E r \in 1..MaxRefresh :
       \/ RefreshFetchRejects(r)
       \/ \E ok \in BOOLEAN : RefreshFetchResponds(r, ok)
       \/ RefreshJsonArrives(r, "invalid", NoTokens)
       \/ \E a \in MemberValues(AccessTokenOf(r)),
             t \in MemberValues(RefreshTokenOf(r)) :
             RefreshJsonArrives(r, "parsed", StoredTokens(a, t))

FairSpec == Spec /\ WF_vars(RefreshNetwork)

\* The network answers the requests of call c: its fetch() settles and the
\* read of the response body settles.
CallNetwork(c) ==
    \/ FetchRejects(c)
    \/ \E st \in Statuses : FetchResponds(c, st)
    \/ \E body \in Bodies : TextArrives(c, body)
    \/ TextRejects(c)

\* Every network call eventually settles.
LiveSpec ==
    /\ Spec
    /\ WF_vars(RefreshNetwork)
    /\ \A c \in CallIds : WF_vars(CallNetwork(c))

----------------------------------------------------------------------------
\* Cancellation: the caller aborts the signal it passed in options.signal.

\* A coordinator whose refresh request is tied to the signal of the caller
\* that waits for it: aborting the signal fails the refresh.
CancelAbortsRefresh(c) ==
    /\ calls[c].pc \in {"fetch", "refresh", "text"}
    /\ ~calls[c].aborted
    /\ calls' = [calls EXCEPT ![c].aborted = TRUE]
    /\ IF calls[c].pc = "refresh"
       THEN /\ refreshes' = [refreshes EXCEPT ![calls[c].rid] =
                               [@ EXCEPT !.phase = "settled",
                                         !.resp = "neterr"]]
            /\ refreshPromise' = 0
       ELSE UNCHANGED <<refreshes, refreshPromise>>
    /\ UNCHANGED <<browser, localStorage, session, probe>>

\* The signal of call c is aborted while the call is suspended.  The signal
\* is handed to the call's own fetch() only (line 279; the refresh request of
\* lines 197-201 has none): a pending fetch() or body read of the call can
\* only reject from now on, and so does the fetch() of its retry; a refresh
\* the call waits for is not affected.
Cancel(c) ==
    /\ calls[c].pc \in {"fetch", "refresh", "text"}
    /\ ~calls[c].aborted
    /\ calls' = [calls EXCEPT ![c].aborted = TRUE]
    /\ UNCHANGED <<browser, localStorage, refreshPromise, refreshes, session,
                   probe>>

CancelNext ==
    \/ Next
    \/ \E c \in CallIds : Cancel(c)

CancelSpec == Init /\ [][CancelNext]_vars

----------------------------------------------------------------------------
\* Vocabulary of the properties

RefreshIds == 1..Len(refreshes)

\* The refresh network calls that have not settled.
Outstanding == {r \in RefreshIds : refreshes[r].phase # "settled"}

\* The call has been handed the outcome of a refresh network call.
Observed(c) == calls[c].rid > 0 /\ calls[c].refreshed # "none"

AsText(b) == IF b THEN "true" ELSE "false"

\* apiFetch call c returns or throws in this step.
Completes(c) == calls[c].pc # "done" /\ calls'[c].pc = "done"

\* Call c invokes refreshTokens() in this step.
InvokesRefresh(c) == calls[c].rid = -1 /\ calls'[c].rid # -1

\* Refresh r settles in this step.
Settles(r) ==
    /\ r \in RefreshIds
    /\ refreshes[r].phase # "settled"
    /\ refreshes'[r].phase = "settled"

----------------------------------------------------------------------------
\* C1  Single-flight refresh: at most one refresh network call is
\* outstanding in every reachable state; every call waiting for a refresh
\* waits for that one call (no further one is issued while it is in flight);
\* and every call that was handed the outcome of a refresh, the initiator and
\* the joiners alike, was handed the boolean that refresh resolved to.
C1_SingleFlight ==
    /\ Cardinality(Outstanding) <= 1
    /\ \A c \in CallIds :
          calls[c].pc = "refresh" =>
             /\ calls[c].rid = refreshPromise
             /\ Outstanding = {refreshPromise}
    /\ \A c \in CallIds :
          Observed(c) =>
             /\ refreshes[calls[c].rid].phase = "settled"
             /\ calls[c].refreshed = AsText(refreshes[calls[c].rid].result)

\* Two callers of one refresh have both been handed its outcome, and it was
\* the only network call.
C1_Witness ==
    \E c1, c2 \in CallIds :
       /\ c1 # c2
       /\ Observed(c1) /\ Observed(c2)
       /\ calls[c1].rid = calls[c2].rid
       /\ calls[c1].refreshed = calls[c2].refreshed
       /\ Len(refreshes) = 1

----------------------------------------------------------------------------
\* C2  Retry-once: when the first response of an auth-required call was 401,
\* the refresh yielded true and the retried request is answered 401 as well,
\* the caller observes an ApiError with status 401 built from that second
\* response (a connection that breaks while the body is read is left aside),
\* and the call makes no third dispatch and invokes no second refresh.
C2_RetryOnce ==
    /\ [] (\A c \in CallIds : calls[c].dispatches <= 2)
    /\ [][\A c \in CallIds :
            /\ calls[c].rid # -1 /\ calls'[c].pc # "done"
                 => calls'[c].rid = calls[c].rid
            /\ ( /\ Completes(c)
                 /\ calls[c].dispatches = 2
                 /\ calls[c].refreshed = "true"
                 /\ calls[c].status = 401
                 /\ calls'[c].outcome # "TransportError" )
                 => /\ calls'[c].outcome = "ApiError"
                    /\ calls'[c].errStatus = 401]_vars

\* C3  No retry without refresh success: when the first response of an
\* auth-required call was 401 and the refresh yielded false, the call
\* completes after its single dispatch, the token store then holds neither
\* token, and the caller observes an ApiError with status 401 built from the
\* original response (a connection that breaks while the body is read is left
\* aside).
C3_NoRetryWithoutRefresh ==
    [][\A c \in CallIds :
         ( /\ Completes(c)
           /\ calls[c].refreshed = "false"
           /\ calls'[c].outcome # "TransportError" )
           => /\ calls[c].dispatches = 1
              /\ calls[c].status = 401
              /\ getAccessToken(localStorage') = Null
              /\ getRefreshToken(localStorage') = Null
              /\ calls'[c].outcome = "ApiError"
              /\ calls'[c].errStatus = 401]_vars

\* C4, as claimed: any two auth-required calls that are in flight together
\* and have both been through the refresh step after a 401 were served by
\* one and the same refresh network call and saw the same outcome, whenever
\* their 401 responses arrived.
C4_OneRefreshInEveryInterleaving ==
    \A c1, c2 \in CallIds :
       (c1 # c2 /\ Observed(c1) /\ calls[c2].refreshed # "none")
          => /\ calls[c2].rid \in {0, calls[c1].rid}
             /\ calls[c1].refreshed = calls[c2].refreshed

\* C4, amended: a call whose 401 is handled while a refresh is in flight
\* joins it, so no refresh network call is issued and the marker is left
\* alone; calls waiting at the same time wait for the same refresh; and calls
\* served by the same refresh saw the same outcome.
C4_JoinWhileInFlight ==
    /\ [] (\A c1, c2 \in CallIds :
             /\ calls[c1].pc = "refresh" /\ calls[c2].pc = "refresh"
                  => calls[c1].rid = calls[c2].rid
             /\ Observed(c1) /\ Observed(c2) /\ calls[c1].rid = calls[c2].rid
                  => calls[c1].refreshed = calls[c2].refreshed)
    /\ [][\A c \in CallIds :
            (InvokesRefresh(c) /\ refreshPromise # 0)
               => /\ calls'[c].pc = "refresh"
                  /\ calls'[c].rid = refreshPromise
                  /\ refreshes' = refreshes
                  /\ refreshPromise' = refreshPromise]_vars

\* Two calls wait for the one refresh in flight.
C4_Witness ==
    \E c1, c2 \in CallIds :
       /\ c1 # c2
       /\ calls[c1].pc = "refresh" /\ calls[c2].pc = "refresh"
       /\ Len(refreshes) = 1

----------------------------------------------------------------------------
\* C5  Refresh success: a settled refresh resolved to true exactly when its
\* response had a success status and its body parsed to an object with a
\* non-empty accessToken and a non-empty refreshToken; and when it resolved
\* to true the token store holds exactly that pair when refreshTokens'
\* handlers end and still when the settling step is over.
C5_RefreshSuccess ==
    /\ [] (\A r \in RefreshIds :
             refreshes[r].phase = "settled" =>
                /\ refreshes[r].result <=>
                     /\ refreshes[r].resp = "ok"
                     /\ refreshes[r].body = "parsed"
                     /\ refreshes[r].data[ACCESS_TOKEN_KEY] \notin
                           {Undef, Null, EmptyStr}
                     /\ refreshes[r].data[REFRESH_TOKEN_KEY] \notin
                           {Undef, Null, EmptyStr}
                /\ refreshes[r].result => refreshes[r].post = refreshes[r].data)
    /\ [][\A r \in RefreshIds :
            (Settles(r) /\ refreshes'[r].result)
               => /\ getAccessToken(localStorage') =
                        refreshes'[r].data[ACCESS_TOKEN_KEY]
                  /\ getRefreshToken(localStorage') =
                        refreshes'[r].data[REFRESH_TOKEN_KEY]]_vars

\* A refresh has resolved to true and the store holds the pair it brought.
C5_Witness ==
    \E r \in RefreshIds :
       /\ refreshes[r].phase = "settled"
       /\ refreshes[r].result
       /\ localStorage = StoredTokens(AccessTokenOf(r), RefreshTokenOf(r))

\* C6  Refresh failure leaves the tokens in place: when a refresh resolved to
\* false, the token store at the end of refreshTokens' handlers is the store
\* those handlers found, which is the store of the moment the refresh was
\* issued (nothing else wrote to it in between).
C6_FailureKeepsTokens ==
    \A r \in RefreshIds :
       (refreshes[r].phase = "settled" /\ ~refreshes[r].result)
          => /\ refreshes[r].post = refreshes[r].pre
             /\ refreshes[r].pre = refreshes[r].atIssue

\* A refresh issued with a stored pair has failed on a body that lacks a
\* token, and the pair was still there when its handlers ended.
C6_Witness ==
    \E r \in RefreshIds :
       /\ refreshes[r].phase = "settled"
       /\ ~refreshes[r].result
       /\ refreshes[r].body = "parsed"
       /\ Truthy(refreshes[r].post[ACCESS_TOKEN_KEY])
       /\ Truthy(refreshes[r].post[REFRESH_TOKEN_KEY])

\* C7  Refresh without a refresh token: a call that invokes refreshTokens()
\* while no refresh is in flight and the token store yields no refresh token
\* is handed false in that same step; no refresh network call is issued and
\* the in-flight marker stays null.
C7_NoRefreshToken ==
    [][\A c \in CallIds :
         ( /\ InvokesRefresh(c)
           /\ refreshPromise = 0
           /\ getRefreshToken(localStorage) = Null )
           => /\ calls'[c].rid = 0
              /\ calls'[c].refreshed = "false"
              /\ refreshes' = refreshes
              /\ refreshPromise' = 0]_vars

\* A call got false from refreshTokens() without a network call.
C7_Witness ==
    \E c \in CallIds :
       /\ browser
       /\ calls[c].rid = 0
       /\ calls[c].refreshed = "false"
       /\ refreshPromise = 0
       /\ refreshes = <<>>

\* C8  Return to IDLE: the marker never names a settled refresh, whatever the
\* refresh resolved to; it is cleared in the step in which the refresh
\* settles, so it is already null when a waiter holds the outcome; a call that
\* starts waiting never waits for a settled refresh (a 401 after settlement
\* issues a new network call); and, the network answering, a set marker is
\* eventually cleared.
C8_ReturnToIdle ==
    /\ [] (/\ refreshPromise # 0 =>
                /\ refreshPromise \in RefreshIds
                /\ refreshes[refreshPromise].phase # "settled"
           /\ \A c \in CallIds :
                Observed(c) => refreshPromise # calls[c].rid)
    /\ [][/\ \A r \in RefreshIds : Settles(r) => refreshPromise' = 0
          /\ \A c \in CallIds :
               (calls[c].pc # "refresh" /\ calls'[c].pc = "refresh")
                  => /\ calls'[c].rid \in 1..Len(refreshes')
                     /\ refreshes'[calls'[c].rid].phase # "settled"
                     /\ (refreshPromise = 0 =>
                           /\ Len(refreshes') = Len(refreshes) + 1
                           /\ calls'[c].rid = Len(refreshes'))]_vars
    /\ (refreshPromise # 0) ~> (refreshPromise = 0)

\* A refresh has settled and a later 401 has issued a new one, now in
\* flight.
C8_Witness ==
    \E r1, r2 \in RefreshIds :
       /\ r1 < r2
       /\ refreshes[r1].phase = "settled"
       /\ refreshes[r2].phase # "settled"
       /\ refreshPromise = r2

\* C9  Retry carries the refreshed token: while the retried request of a call
\* is in flight, the refresh the call waited for has settled with true and
\* the request's Authorization header carries the access token that refresh
\* stored.
C9_RetryCarriesRefreshedToken ==
    \A c \in CallIds :
       (calls[c].pc = "fetch" /\ calls[c].dispatches = 2)
          => /\ calls[c].rid \in RefreshIds
             /\ refreshes[calls[c].rid].phase = "settled"
             /\ refreshes[calls[c].rid].result
             /\ calls[c].auth = refreshes[calls[c].rid].post[ACCESS_TOKEN_KEY]
             /\ calls[c].auth # Null
             /\ ~calls[c].shouldRetry

\* A retried request is in flight with a token.
C9_Witness ==
    \E c \in CallIds :
       /\ calls[c].pc = "fetch"
       /\ calls[c].dispatches = 2
       /\ calls[c].auth = AccessTokenOf(calls[c].rid)

\* C10  Bearer attachment: a dispatched request carries an Authorization
\* token exactly when the call requires auth and the token store held an
\* access token when it was dispatched, and then it is that token; a request
\* that does not require auth carries none, and neither does a refresh
\* request.
C10_BearerAttachment ==
    /\ \A c \in CallIds :
          calls[c].pc = "fetch" =>
             /\ (calls[c].auth # Null) <=>
                   (calls[c].requiresAuth /\ calls[c].tokAtDispatch # Null)
             /\ calls[c].auth # Null => calls[c].auth = calls[c].tokAtDispatch
    /\ \A r \in RefreshIds : refreshes[r].auth = Null

\* With a token in the store, one request that requires auth is in flight
\* with it and one that does not is in flight without.
C10_Witness ==
    \E c1, c2 \in CallIds :
       /\ calls[c1].pc = "fetch" /\ calls[c2].pc = "fetch"
       /\ calls[c1].requiresAuth /\ calls[c1].auth # Null
       /\ ~calls[c2].requiresAuth /\ calls[c2].tokAtDispatch # Null
       /\ calls[c2].auth = Null

----------------------------------------------------------------------------
\* http.ts: parseResponse as a function of the response

\* What response.text() can deliver.  A text is written here by what
\* JSON.parse makes of it: nothing, text that is not JSON (an HTML error
\* page), the JSON text null, or the JSON text of an object with the members
\* message and error (Undef: the member is missing).
EmptyText == [kind |-> "empty", message |-> Undef, error |-> Undef]
InvalidText == [kind |-> "invalid", message |-> Undef, error |-> Undef]
NullText == [kind |-> "null", message |-> Undef, error |-> Undef]
ObjectText(m, e) == [kind |-> "object", message |-> m, error |-> e]

MessageValues == {Undef, EmptyStr, "Validation failed"}
ErrorValues == {Undef, EmptyStr, "Bad Request"}

Texts ==
    {EmptyText, InvalidText, NullText}
    \cup {ObjectText(m, e) : m \in MessageValues, e \in ErrorValues}

\* JavaScript values a body parses to.
Undefined == [type |-> "undefined", message |-> Undef, error |-> Undef]
JsNull == [type |-> "null", message |-> Undef, error |-> Undef]
JsObject(m, e) == [type |-> "object", message |-> m, error |-> e]

\* Line 230: the truthiness of text.
TextTruthy(text) == text.kind # "empty"

\* JSON.parse(text): a SyntaxError for the empty text and for text that is
\* not JSON.
JSONparse(text) ==
    [throws |-> text.kind \in {"empty", "invalid"},
     value  |-> IF text.kind = "null" THEN JsNull
                ELSE IF text.kind = "object"
                THEN JsObject(text.message, text.error)
                ELSE Undefined]

\* data?.member
Member(data, member) ==
    IF data.type = "object" THEN data[member] ELSE Undef

\* a || b
Or(a, b) == IF Truthy(a) THEN a ELSE b

\* Line 236.
GenericMessage(status) ==
    "API request failed with status " \o ToString(status)

\* Lines 233-236: the message of the ApiError.
ErrorMessage(data, status) ==
    Or(Member(data, "message"),
       Or(Member(data, "error"), GenericMessage(status)))

\* The body as the dispatcher's steps see it.
BodyOf(text) ==
    IF ~TextTruthy(text) THEN "empty"
    ELSE IF JSONparse(text).throws THEN "invalid"
    ELSE "json"

\* What the caller of parseResponse gets: a value (returned data), an ApiError
\* (status, message, payload in data) or a SyntaxError; read tells whether
\* response.text() was called.
NoResult ==
    [kind |-> "none", read |-> FALSE, status |-> 0, message |-> Undef,
     data |-> Undefined]

\* Lines 224-240: parseResponse run to completion on a response with the
\* given status and body text.
parseResponse(status, text) ==
    LET start == ParseStart(IdleCall, status) IN
    IF start.pc = "done"
    THEN [NoResult EXCEPT !.kind = start.outcome]
    ELSE LET end  == ParseFinish(start, BodyOf(text))
             data == IF TextTruthy(text) /\ ~JSONparse(text).throws
                     THEN JSONparse(text).value
                     ELSE Undefined
         IN  [kind    |-> end.outcome,
              read    |-> TRUE,
              status  |-> end.errStatus,
              message |-> IF end.outcome = "ApiError"
                          THEN ErrorMessage(data, status)
                          ELSE Undef,
              data    |-> IF end.outcome = "SyntaxError"
                          THEN Undefined
                          ELSE data]

\* The statuses parseResponse is examined on.
ProbeStatuses == Statuses \cup {201, 400, 404}

\* parseResponse is about to be applied to a response.
ParseInit ==
    /\ browser = TRUE
    /\ localStorage = NoTokens
    /\ refreshPromise = 0
    /\ refreshes = <<>>
    /\ calls = [c \in CallIds |-> IdleCall]
    /\ session = NoSession
    /\ probe \in {[fn |-> "parseResponse", status |-> st, text |-> t,
                   ran |-> FALSE, out |-> NoResult] :
                  st \in ProbeStatuses, t \in Texts}

ParseResponseRuns ==
    /\ probe.fn = "parseResponse"
    /\ ~probe.ran
    /\ probe' = [probe EXCEPT !.ran = TRUE,
                              !.out = parseResponse(probe.status, probe.text)]
    /\ UNCHANGED <<browser, localStorage, refreshPromise, refreshes, calls,
                   session>>

ParseNext == ParseResponseRuns

ParseSpec == ParseInit /\ [][ParseNext]_vars

\* parseResponse has run on the response under examination.
Parsed == probe.fn = "parseResponse" /\ probe.ran

----------------------------------------------------------------------------
\* C11: a response with status 204 yields undefined whatever its body holds;
\* response.text() is not called, nothing is parsed and no error is raised.
C11_NoContent ==
    (Parsed /\ probe.status = 204) =>
        /\ probe.out.kind = "value"
        /\ probe.out.data = Undefined
        /\ ~probe.out.read

\* parseResponse has answered a 204 whose body is not JSON.
C11_Witness ==
    /\ Parsed
    /\ probe.status = 204
    /\ probe.text = InvalidText
    /\ probe.out.kind = "value"

\* C12: every response with a non-success status becomes an ApiError with
\* that status, with the body's message, else its error, else the generic
\* text as message, and with the parsed body as payload, whatever the body
\* is.
C12_ErrorsBecomeApiError ==
    (Parsed /\ ~ResponseOk(probe.status)) =>
        /\ probe.out.kind = "ApiError"
        /\ probe.out.status = probe.status
        /\ probe.out.message =
             (IF Truthy(probe.text.message) THEN probe.text.message
              ELSE IF Truthy(probe.text.error) THEN probe.text.error
              ELSE GenericMessage(probe.status))
        /\ probe.out.data =
             (IF probe.text.kind = "object"
              THEN JsObject(probe.text.message, probe.text.error)
              ELSE IF probe.text.kind = "null" THEN JsNull
              ELSE Undefined)

\* C13: in every state, that is at every boundary where a suspended apiFetch
\* or refresh can resume and read the token store, the store holds either
\* no token at all or the two tokens of one setTokens call: the pair an
\* earlier session left, or the pair a settled successful refresh stored.
C13_PairAtomicity ==
    \/ localStorage = NoTokens
    \/ localStorage = StoredTokens(AccessTokenOf(0), RefreshTokenOf(0))
    \/ \E r \in RefreshIds :
          /\ refreshes[r].phase = "settled"
          /\ refreshes[r].result
          /\ localStorage = refreshes[r].data
          /\ localStorage = StoredTokens(AccessTokenOf(r), RefreshTokenOf(r))

\* A refresh has replaced the stored pair while another call is suspended on
\* its own network call and a second refresh is in flight.
C13_Witness ==
    /\ localStorage = StoredTokens(AccessTokenOf(1), RefreshTokenOf(1))
    /\ \E c \in CallIds : calls[c].pc = "fetch"
    /\ \E r \in RefreshIds : refreshes[r].phase = "json"

----------------------------------------------------------------------------
\* tokenStorage.ts: the four operations applied by a client in any order

\* The tokens a client stores.
ProbeAccessTokens == {AccessTokenOf(1), AccessTokenOf(2)}
ProbeRefreshTokens == {RefreshTokenOf(1), RefreshTokenOf(2)}

\* The getters have not been called since the store last changed.
NotRead == [read |-> FALSE, access |-> Null, refresh |-> Null]

\* The store is about to be used: op is the latest setTokens/clearTokens with
\* its arguments, prevOp the one before it, before the content of
\* localStorage when op was called, got what the getters returned since.
StoreInit ==
    /\ browser \in BOOLEAN
    /\ localStorage \in
         IF browser
         THEN {NoTokens, StoredTokens(AccessTokenOf(0), RefreshTokenOf(0))}
         ELSE {NoTokens}
    /\ refreshPromise = 0
    /\ refreshes = <<>>
    /\ calls = [c \in CallIds |-> IdleCall]
    /\ session = NoSession
    /\ probe = [fn |-> "tokenStorage", op |-> "none", prevOp |-> "none",
                access |-> Null, refresh |-> Null,
                before |-> localStorage, got |-> NotRead]

\* tokenStorage.setTokens({accessToken, refreshToken}): lines 20-24.
SetTokens(accessToken, refreshToken) ==
    /\ probe.fn = "tokenStorage"
    /\ localStorage' = setTokens(localStorage, accessToken, refreshToken)
    /\ probe' = [probe EXCEPT !.op = "setTokens", !.prevOp = probe.op,
                              !.access = accessToken,
                              !.refresh = refreshToken,
                              !.before = localStorage, !.got = NotRead]
    /\ UNCHANGED <<browser, refreshPromise, refreshes, calls, session>>

\* tokenStorage.clearTokens(): lines 25-29.
ClearTokens ==
    /\ probe.fn = "tokenStorage"
    /\ localStorage' = clearTokens(localStorage)
    /\ probe' = [probe EXCEPT !.op = "clearTokens", !.prevOp = probe.op,
                              !.access = Null, !.refresh = Null,
                              !.before = localStorage, !.got = NotRead]
    /\ UNCHANGED <<browser, refreshPromise, refreshes, calls, session>>

\* tokenStorage.getAccessToken() and getRefreshToken(): lines 12-19.
GetTokens ==
    /\ probe.fn = "tokenStorage"
    /\ probe' = [probe EXCEPT !.got =
                   [read    |-> TRUE,
                    access  |-> getAccessToken(localStorage),
                    refresh |-> getRefreshToken(localStorage)]]
    /\ UNCHANGED <<browser, localStorage, refreshPromise, refreshes, calls,
                   session>>

StoreNext ==
    \/ \E a \in ProbeAccessTokens, r \in ProbeRefreshTokens : SetTokens(a, r)
    \/ ClearTokens
    \/ GetTokens

StoreSpec == StoreInit /\ [][StoreNext]_vars

----------------------------------------------------------------------------
----------------------------------------------------------------------------
\* Claim Extractor: decode and deriveUser

\* Strings are sequences of characters here; a JSON member or an optional
\* field is missing, a number or a string.
Missing == [t |-> "missing", n |-> 0, s |-> <<>>]
Num(n) == [t |-> "number", n |-> n, s |-> <<>>]
Str(s) == [t |-> "string", n |-> 0, s |-> s]

\* The decimal digits of a natural number.
RECURSIVE Digits(_)
Digits(n) ==
    IF n < 10 THEN <<ToString(n)>>
    ELSE Digits(n \div 10) \o <<ToString(n % 10)>>

\* Coercion of a present value to a string.
String(v) == IF v.t = "number" THEN Digits(v.n) ELSE v.s

\* a ?? b
Coalesce(a, b) == IF a.t # "missing" THEN a ELSE b

\* The first of the values that is present and not the empty string, as a
\* string; the empty string when there is none.
RECURSIVE FirstNonEmpty(_)
FirstNonEmpty(values) ==
    IF values = <<>> THEN <<>>
    ELSE IF Head(values).t # "missing" /\ String(Head(values)) # <<>>
    THEN String(Head(values))
    ELSE FirstNonEmpty(Tail(values))

\* The part of a string before its first '@' (the whole string without one).
RECURSIVE LocalPart(_)
LocalPart(s) ==
    IF s = <<>> \/ Head(s) = "@" THEN <<>>
    ELSE <<Head(s)>> \o LocalPart(Tail(s))

\* The recognized keys of a decoded payload.
NoClaims ==
    [userId |-> Missing, sub |-> Missing, email |-> Missing, name |-> Missing,
     roles |-> Missing, authorities |-> Missing]

\* A token is the sequence of its characters, with '.' between segments.  A
\* segment's characters are grouped in one chunk, written by what the
\* decoder makes of it: its alphabet (std: characters common to both base64
\* alphabets; url: with '-' or '_'; bad: with characters of neither) and the
\* text it is the base64 encoding of (json: whether that text is a JSON
\* object, claims: the recognized members of the object).
Chunk(chars, json, claims) ==
    [chars |-> chars, json |-> json, claims |-> claims]

\* The character '.'.
Dot == Chunk(".", FALSE, NoClaims)

\* token.split(".")
RECURSIVE Split(_)
Split(token) ==
    IF token = <<>> THEN << <<>> >>
    ELSE IF Head(token) = Dot
    THEN << <<>> >> \o Split(Tail(token))
    ELSE LET rest == Split(Tail(token))
         IN  << <<Head(token)>> \o Head(rest) >> \o Tail(rest)

\* '-' -> '+', '_' -> '/'
UrlSafeToStandard(segment) ==
    [i \in 1..Len(segment) |->
        [segment[i] EXCEPT !.chars = IF @ = "url" THEN "std" ELSE @]]

\* Base64 decoding of a segment to text; it fails on a character outside
\* the standard alphabet.  The empty segment decodes to the empty text.
Base64Decode(segment) ==
    [throws |-> \E i \in 1..Len(segment) : segment[i].chars # "std",
     text   |-> IF segment = <<>>
                THEN [json |-> FALSE, claims |-> NoClaims]
                ELSE [json |-> segment[1].json, claims |-> segment[1].claims]]

\* Parsing of the decoded text as a structured mapping.
ParseClaims(text) == [throws |-> ~text.json, claims |-> text.claims]

\* What decode hands its caller: null or the claims, or an error (threw).
DecodeResult(threw, isNull, claims) ==
    [threw |-> threw, isNull |-> isNull, claims |-> claims]

\* A decoder that lets the failures of its steps through.
decodeUnguarded(token) ==
    LET segments == Split(token) IN
    IF Len(segments) < 2
    THEN DecodeResult(FALSE, TRUE, NoClaims)
    ELSE LET decoded == Base64Decode(UrlSafeToStandard(segments[2]))
             parsed  == ParseClaims(decoded.text)
         IN  IF decoded.throws \/ parsed.throws
             THEN DecodeResult(TRUE, FALSE, NoClaims)
             ELSE DecodeResult(FALSE, FALSE, parsed.claims)

\* decode(token): segment 1 of the token, URL-safe base64 to text, text to
\* claims; null when the segment is absent or any step fails.
decode(token) ==
    LET segments == Split(token) IN
    IF Len(segments) < 2
    THEN DecodeResult(FALSE, TRUE, NoClaims)
    ELSE LET decoded == Base64Decode(UrlSafeToStandard(segments[2]))
             parsed  == ParseClaims(decoded.text)
         IN  IF decoded.throws \/ parsed.throws
             THEN DecodeResult(FALSE, TRUE, NoClaims)
             ELSE DecodeResult(FALSE, FALSE, parsed.claims)

\* A merge that prefers the caller's name to the token's.
DeriveNameFallbackFirst(claims, fallback, email) ==
    String(Coalesce(fallback.name,
                    Coalesce(claims.name, Str(LocalPart(email)))))

\* name := claims.name ?? fallback.name ?? local part of email ?? ""
DeriveName(claims, fallback, email) ==
    String(Coalesce(claims.name,
                    Coalesce(fallback.name, Str(LocalPart(email)))))

\* The merge of the claims with the caller's fallback values; failed is the
\* "incomplete identity" condition.
Merge(claims, fallback) ==
    LET id    == FirstNonEmpty(<<claims.userId, claims.sub, fallback.id,
                                 fallback.email>>)
        email == String(Coalesce(claims.email,
                                 Coalesce(fallback.email, Str(<<>>))))
    IN  [failed |-> id = <<>>,
         id     |-> id,
         email  |-> email,
         name   |-> DeriveName(claims, fallback, email),
         roles  |-> Coalesce(claims.roles, claims.authorities)]

\* deriveUser(token, fallback)
deriveUser(token, fallback) == Merge(decode(token).claims, fallback)

\* The inputs deriveUser is examined on.
ClaimSets ==
    [userId      : {Missing, Num(7)},
     sub         : {Missing, Str(<<"u", "1">>)},
     email       : {Missing, Str(<<"a", "@", "x">>)},
     name        : {Missing, Str(<<"N">>)},
     roles       : {Missing, Str(<<"R">>)},
     authorities : {Missing, Str(<<"A">>)}]

Header == Chunk("std", TRUE, NoClaims)
Signature == Chunk("url", FALSE, NoClaims)

Tokens ==
    {<<Header, Dot, Chunk(chars, TRUE, claims), Dot, Signature>> :
        chars \in {"std", "url"}, claims \in ClaimSets}
    \cup {<<Header>>,
          <<Header, Dot, Chunk("bad", TRUE, NoClaims)>>,
          <<Header, Dot, Chunk("url", FALSE, NoClaims), Dot, Signature>>,
          <<Header, Dot, Dot, Signature>>}

Fallbacks ==
    [id    : {Missing, Str(<<"f">>)},
     email : {Missing, Str(<<>>), Str(<<"b", "@", "y">>)},
     name  : {Missing, Str(<<"B">>)}]

NoUser == [failed |-> TRUE, id |-> <<>>, email |-> <<>>, name |-> <<>>,
           roles |-> Missing]

ClaimInit ==
    /\ browser = TRUE
    /\ localStorage = NoTokens
    /\ refreshPromise = 0
    /\ refreshes = <<>>
    /\ calls = [c \in CallIds |-> IdleCall]
    /\ session = NoSession
    /\ probe \in {[fn |-> "deriveUser", token |-> token,
                   fallback |-> fallback, ran |-> FALSE,
                   decoded |-> DecodeResult(FALSE, TRUE, NoClaims),
                   out |-> NoUser] :
                  token \in Tokens, fallback \in Fallbacks}

DeriveUserRuns ==
    /\ probe.fn = "deriveUser"
    /\ ~probe.ran
    /\ probe' = [probe EXCEPT !.ran = TRUE,
                              !.decoded = decode(probe.token),
                              !.out = deriveUser(probe.token,
                                                 probe.fallback)]
    /\ UNCHANGED <<browser, localStorage, refreshPromise, refreshes, calls,
                   session>>

ClaimNext == DeriveUserRuns

ClaimSpec == ClaimInit /\ [][ClaimNext]_vars

\* deriveUser has run on the token under examination.
Derived == probe.fn = "deriveUser" /\ probe.ran

\* The payload of the token under examination: its claims, none when it has
\* no readable payload.
WellFormed(token) ==
    /\ Len(token) >= 3
    /\ token[2] = Dot
    /\ token[3] # Dot
    /\ token[3].chars # "bad"
    /\ token[3].json
PayloadClaims(token) == IF WellFormed(token) THEN token[3].claims ELSE NoClaims

\* Vocabulary of the claim properties
Present(v) == v.t # "missing"
NonEmpty(v) == Present(v) /\ String(v) # <<>>

\* p is what stands before the first '@' of s.
IsLocalPartOf(p, s) ==
    /\ Len(p) <= Len(s)
    /\ \A i \in 1..Len(p) : p[i] = s[i] /\ p[i] # "@"
    /\ (Len(p) = Len(s) \/ s[Len(p) + 1] = "@")

----------------------------------------------------------------------------
\* C18: for every combination of present and absent claims and fallback
\* values the derived id is the first non-empty of claims.userId,
\* claims.sub, fallback.id, fallback.email, else empty; the email is
\* claims.email, else fallback.email, else empty; the name is claims.name,
\* else fallback.name, else the part of the derived email before '@'; no
\* fallback value is taken where the claim is present.
C18_ClaimPrecedence ==
    Derived =>
        LET c == PayloadClaims(probe.token)
            f == probe.fallback
            u == probe.out
        IN  /\ u.id =
                 (IF NonEmpty(c.userId) THEN String(c.userId)
                  ELSE IF NonEmpty(c.sub) THEN String(c.sub)
                  ELSE IF NonEmpty(f.id) THEN String(f.id)
                  ELSE IF NonEmpty(f.email) THEN String(f.email)
                  ELSE <<>>)
            /\ u.email =
                 (IF Present(c.email) THEN String(c.email)
                  ELSE IF Present(f.email) THEN String(f.email)
                  ELSE <<>>)
            /\ IF Present(c.name) THEN u.name = String(c.name)
               ELSE IF Present(f.name) THEN u.name = String(f.name)
               ELSE IsLocalPartOf(u.name, u.email)

\* The token carries the numeric userId 7, an email and a name, and the
\* caller supplies an id, another email and another name: the claims win.
C18_Witness ==
    /\ Derived
    /\ PayloadClaims(probe.token).userId = Num(7)
    /\ PayloadClaims(probe.token).sub = Missing
    /\ Present(PayloadClaims(probe.token).email)
    /\ Present(PayloadClaims(probe.token).name)
    /\ NonEmpty(probe.fallback.id)
    /\ NonEmpty(probe.fallback.email)
    /\ Present(probe.fallback.name)
    /\ probe.out.id = <<"7">>
    /\ probe.out.email = <<"a", "@", "x">>
    /\ probe.out.name = <<"N">>

\* C19: decode hands no error to its caller; a token without a second
\* segment, with a second segment that is not base64, or with a payload
\* that is not structured text yields null, and deriveUser then returns the
\* caller's fallback values.
C19_DecodeSafety ==
    Derived =>
        /\ ~probe.decoded.threw
        /\ ~WellFormed(probe.token) =>
              /\ probe.decoded.isNull
              /\ probe.out.id =
                   (IF NonEmpty(probe.fallback.id)
                    THEN String(probe.fallback.id)
                    ELSE IF NonEmpty(probe.fallback.email)
                    THEN String(probe.fallback.email)
                    ELSE <<>>)
              /\ probe.out.email =
                   (IF Present(probe.fallback.email)
                    THEN String(probe.fallback.email)
                    ELSE <<>>)
              /\ Present(probe.fallback.name) =>
                    probe.out.name = String(probe.fallback.name)
              /\ probe.out.roles = Missing

\* decode has answered a token whose second segment is not base64 and the
\* caller's email became the id.
C19_Witness ==
    /\ Derived
    /\ Len(probe.token) = 3
    /\ probe.token[3].chars = "bad"
    /\ probe.decoded.isNull
    /\ probe.fallback.id = Missing
    /\ probe.out.id = <<"b", "@", "y">>
    /\ probe.out.name = <<"b">>

----------------------------------------------------------------------------
\* AuthContext.tsx: the session provider

\* The session user: null, or { id, email, name }.
NullUser == [null |-> TRUE, id |-> <<>>, email |-> <<>>, name |-> <<>>]
User(id, email, name) ==
    [null |-> FALSE, id |-> id, email |-> email, name |-> name]

\* The value under the key "user": absent, the JSON text of a user, or text
\* that is not JSON.
NoText == [kind |-> "absent", user |-> NullUser]
CorruptText == [kind |-> "invalid", user |-> NullUser]

\* JSON.stringify(user)
Stringify(user) == [kind |-> "json", user |-> user]

\* JSON.parse(text) of a stored user
ParseUser(text) == [throws |-> text.kind # "json", user |-> text.user]

\* Date.now()
Times == {1, 2}

\* Line 71: "mock-jwt-token-" + Date.now()
MockToken(now) == "mock-jwt-token-" \o ToString(now)

\* The characters of a mock token as a token decoder reads them: letters,
\* digits and '-', no '.'.
MockTokenText == <<Chunk("url", FALSE, NoClaims)>>

\* The keys "user", "token" and "loginTime" of localStorage.
SessionKeys(user, token, loginTime) ==
    [user |-> user, token |-> token, loginTime |-> loginTime]
NoSessionKeys == SessionKeys(NoText, Null, Null)

\* email.split("@")[0]
SplitAtFirst(email) == LocalPart(email)

\* No login or signup is waiting for its timer.
NoPending ==
    [op |-> "none", email |-> <<>>, name |-> <<>>, server |-> "ok"]

\* No operation of the provider has completed.
NoLast ==
    [op |-> "none", result |-> FALSE, setUser |-> FALSE, email |-> <<>>,
     name |-> <<>>, server |-> "ok"]

\* What the user types.
Emails == {<<>>, <<"a", "@", "x">>, <<"b">>}
Names == {<<>>, <<"N">>}

\* What the auth server would answer to the credentials: accept them,
\* reject them (ApiError), or not be reachable (transport failure).
ServerAnswers == {"ok", "ApiError", "TransportError"}

\* Lines 24-26: the provider is rendered; localStorage holds what an earlier
\* visit left: nothing, the keys of a login, or a "user" that no longer
\* parses.
SessionInit ==
    /\ browser = TRUE
    /\ localStorage \in
         {NoTokens, StoredTokens(AccessTokenOf(0), RefreshTokenOf(0))}
    /\ refreshPromise = 0
    /\ refreshes = <<>>
    /\ calls = [c \in CallIds |-> IdleCall]
    /\ probe = NoProbe
    /\ \E keys \in {NoSessionKeys,
                    SessionKeys(Stringify(User(<<"1">>, <<"a", "@", "x">>,
                                               <<"a">>)),
                                MockToken(1), ToString(1)),
                    SessionKeys(CorruptText, MockToken(1), ToString(1))} :
          session = [mounted   |-> TRUE,
                     checked   |-> FALSE,
                     user      |-> NullUser,
                     isLoading |-> TRUE,
                     keys      |-> keys,
                     route     |-> Null,
                     pending   |-> NoPending,
                     last      |-> NoLast]

\* Lines 30-47: checkSession, the effect run on mount.
CheckSession ==
    /\ session.mounted
    /\ ~session.checked
    /\ LET storedUser  == session.keys.user
           storedToken == session.keys.token
           parsed      == ParseUser(storedUser)
       IN  session' =
             [session EXCEPT
                !.checked = TRUE,
                !.user = IF storedUser.kind # "absent" /\ Truthy(storedToken)
                            /\ ~parsed.throws
                         THEN parsed.user
                         ELSE @,
                !.keys = IF storedUser.kind # "absent" /\ Truthy(storedToken)
                            /\ parsed.throws
                         THEN [@ EXCEPT !.user = NoText, !.token = Null]
                         ELSE @,
                !.isLoading = FALSE]
    /\ UNCHANGED <<browser, localStorage, refreshPromise, refreshes, calls,
                   probe>>

\* login and signup can be called: the provider has rendered its children
\* and no login or signup is waiting.
CanStart ==
    /\ session.mounted
    /\ session.checked
    /\ session.pending = NoPending

\* Lines 51-63: login(email, password) up to its await of the 500 ms timer.
\* No request is made: what the server would answer plays no part.
LoginStarts(email, server) ==
    /\ CanStart
    /\ session' = [session EXCEPT
                     !.isLoading = TRUE,
                     !.pending = [op |-> "login", email |-> email,
                                  name |-> <<>>, server |-> server]]
    /\ UNCHANGED <<browser, localStorage, refreshPromise, refreshes, calls,
                   probe>>

\* Lines 93-105: signup(name, email, password) up to its await of the timer.
SignupStarts(name, email, server) ==
    /\ CanStart
    /\ session' = [session EXCEPT
                     !.isLoading = TRUE,
                     !.pending = [op |-> "signup", email |-> email,
                                  name |-> name, server |-> server]]
    /\ UNCHANGED <<browser, localStorage, refreshPromise, refreshes, calls,
                   probe>>

\* Lines 66-70 and 108-112: the mock user.
MockUser(pending, now) ==
    IF pending.op = "login"
    THEN User(<<"1">>, pending.email, SplitAtFirst(pending.email))
    ELSE User(Digits(now), pending.email, pending.name)

\* Lines 66-80 and 108-122: the timer fires and login/signup runs to its
\* return true.
TimerFires(now) ==
    /\ session.mounted
    /\ session.pending # NoPending
    /\ LET mockUser == MockUser(session.pending, now) IN
       session' =
         [session EXCEPT
            !.keys = SessionKeys(Stringify(mockUser), MockToken(now),
                                 ToString(now)),
            !.user = mockUser,
            !.isLoading = FALSE,
            !.pending = NoPending,
            !.last = [op      |-> session.pending.op,
                      result  |-> TRUE,
                      setUser |-> TRUE,
                      email   |-> session.pending.email,
                      name    |-> session.pending.name,
                      server  |-> session.pending.server]]
    /\ UNCHANGED <<browser, localStorage, refreshPromise, refreshes, calls,
                   probe>>

\* Lines 130-141: logout.
Logout ==
    /\ session.mounted
    /\ session.checked
    /\ session' = [session EXCEPT
                     !.keys = NoSessionKeys,
                     !.user = NullUser,
                     !.route = "/login",
                     !.last = [NoLast EXCEPT !.op = "logout"]]
    /\ UNCHANGED <<browser, localStorage, refreshPromise, refreshes, calls,
                   probe>>

SessionNext ==
    \/ CheckSession
    \/ \E email \in Emails, server \in ServerAnswers :
          LoginStarts(email, server)
    \/ \E name \in Names, email \in Emails, server \in ServerAnswers :
          SignupStarts(name, email, server)
    \/ \E now \in Times : TimerFires(now)
    \/ Logout

SessionSpec == SessionInit /\ [][SessionNext]_vars

\* Line 146.
isAuthenticated == ~session.user.null

\* The latest operation the provider completed is a login or a signup.
Established == session.mounted /\ session.last.op \in {"login", "signup"}

\* The fallback values a login or signup has for its identity: the email it
\* was called with and, for signup, the name.
FallbackOf(last) ==
    [id    |-> Missing,
     email |-> Str(last.email),
     name  |-> IF last.op = "signup" THEN Str(last.name) ELSE Missing]

\* The identity derived from the token and the fallback values of the
\* latest login or signup would have an empty id.
IncompleteIdentity ==
    deriveUser(MockTokenText, FallbackOf(session.last)).failed

----------------------------------------------------------------------------
\* C15: once logout has completed, the stored access token, the stored
\* refresh token, the serialized user and the login timestamp are absent,
\* the session user is null, isAuthenticated is false and /login has been
\* pushed.
C15_LogoutInvalidates ==
    (session.mounted /\ session.last.op = "logout") =>
        /\ getAccessToken(localStorage) = Null
        /\ getRefreshToken(localStorage) = Null
        /\ session.keys.user = NoText
        /\ session.keys.loginTime = Null
        /\ session.user = NullUser
        /\ ~isAuthenticated
        /\ session.route = "/login"

\* C16: when login has returned true, a request went through apiFetch, the
\* token store holds an access token and a refresh token, and a session
\* user with a non-empty id is set and persisted.
C16_LoginEstablishesTokens ==
    (session.mounted /\ session.last.op = "login" /\ session.last.result) =>
        /\ \E c \in CallIds : calls[c].pc # "idle"
        /\ Truthy(getAccessToken(localStorage))
        /\ Truthy(getRefreshToken(localStorage))
        /\ isAuthenticated
        /\ session.user.id # <<>>
        /\ session.keys.user = Stringify(session.user)

----------------------------------------------------------------------------
\* The refreshes that have settled with true.
Successful ==
    {r \in RefreshIds : refreshes[r].phase = "settled" /\ refreshes[r].result}

\* The greatest element of a non-empty set of numbers.
Latest(S) == CHOOSE r \in S : \A q \in S : q <= r

C22_PurgeOnUnrecovered401 ==
    [][\A c \in CallIds :
         ( /\ Completes(c)
           /\ calls[c].requiresAuth
           /\ calls[c].refreshed # "none"
           /\ calls'[c].outcome = "ApiError"
           /\ calls'[c].errStatus = 401 )
           => /\ getAccessToken(localStorage') = Null
              /\ getRefreshToken(localStorage') = Null]_vars

\* C22, amended: when the refresh yielded false and the call ends with the
\* ApiError of the original 401, the token store holds no token at that
\* moment; when the refresh yielded true and the retried request ends with
\* an ApiError of status 401, the call leaves the store as it is: the
\* refreshed pair stays unless another call's failed refresh removed it.
C22_PurgeOnFailedRefresh ==
    [][\A c \in CallIds :
         ( /\ Completes(c)
           /\ calls[c].requiresAuth
           /\ calls'[c].outcome = "ApiError"
           /\ calls'[c].errStatus = 401 )
           => /\ calls[c].refreshed = "false" =>
                    /\ getAccessToken(localStorage') = Null
                    /\ getRefreshToken(localStorage') = Null
              /\ calls[c].refreshed = "true" =>
                    localStorage' = localStorage]_vars

\* A call has ended with the ApiError of a 401 after its refresh failed, and
\* the store is empty.
C22_Witness ==
    \E c \in CallIds :
       /\ calls[c].outcome = "ApiError"
       /\ calls[c].errStatus = 401
       /\ Len(refreshes) = 1
       /\ refreshes[1].phase = "settled"
       /\ ~refreshes[1].result
       /\ refreshes[1].pre # NoTokens
       /\ localStorage = NoTokens

\* The response to the dispatch of call c arrives in this step (or its
\* network call fails).
Answered(c) == calls[c].pc = "fetch" /\ calls'[c] # calls[c]

\* C23: the refresh coordinator is invoked exactly by a 401 answering the
\* first attempt of an auth-required call.  Every other answer invokes no
\* refresh, dispatches nothing again and leaves the token store as it is; a
\* refresh network call is issued only in a step that handles such a 401;
\* and every other non-2xx answer ends as an ApiError with its status.
C23_RefreshTrigger ==
    [][/\ \A c \in CallIds :
            /\ InvokesRefresh(c) =>
                  /\ Answered(c)
                  /\ calls[c].requiresAuth
                  /\ calls[c].shouldRetry
                  /\ calls[c].dispatches = 1
            /\ (Answered(c) /\ calls'[c].pc = "text"
                  /\ calls'[c].status = 401
                  /\ calls[c].requiresAuth /\ calls[c].shouldRetry)
                  => InvokesRefresh(c)
            /\ (Answered(c) /\ ~InvokesRefresh(c)) =>
                  /\ calls'[c].pc \in {"text", "done"}
                  /\ calls'[c].dispatches <= calls[c].dispatches
                  /\ localStorage' = localStorage
                  /\ refreshes' = refreshes
                  /\ refreshPromise' = refreshPromise
            /\ ( /\ Completes(c)
                 /\ calls[c].pc = "text"
                 /\ ~ResponseOk(calls[c].status)
                 /\ calls'[c].outcome # "TransportError" )
                 => /\ calls'[c].outcome = "ApiError"
                    /\ calls'[c].errStatus = calls[c].status
       /\ Len(refreshes') > Len(refreshes) =>
             \E c \in CallIds :
                /\ InvokesRefresh(c)
                /\ Answered(c)
                /\ calls'[c].status = 401]_vars

\* C24: when the network call of a dispatch fails, the first attempt or the
\* retry, apiFetch fails with that error in the same step: no refresh is
\* invoked or issued, nothing is dispatched again, and the token store, the
\* marker and the other calls are as before.  When the network call of a
\* refresh fails, the refresh resolves to false and every call waiting for
\* it goes on with false; none of them fails with the transport error.
C24_TransportFailure ==
    [][/\ \A c \in CallIds :
            (Answered(c) /\ calls'[c].outcome = "TransportError") =>
               /\ Completes(c)
               /\ ~InvokesRefresh(c)
               /\ localStorage' = localStorage
               /\ refreshes' = refreshes
               /\ refreshPromise' = refreshPromise
               /\ \A d \in CallIds \ {c} : calls'[d] = calls[d]
       /\ \A r \in RefreshIds :
            (Settles(r) /\ refreshes'[r].resp = "neterr") =>
               /\ ~refreshes'[r].result
               /\ refreshes'[r].post = refreshes'[r].pre
               /\ \A c \in CallIds :
                     (calls[c].pc = "refresh" /\ calls[c].rid = r) =>
                        /\ calls'[c].refreshed = "false"
                        /\ calls'[c].outcome # "TransportError"]_vars

\* A call retried after a successful refresh has failed with a transport
\* error, and the refreshed pair is still stored.
C24_Witness ==
    \E c \in CallIds :
       /\ calls[c].outcome = "TransportError"
       /\ \A d \in CallIds \ {c} : calls[d].pc = "idle"
       /\ Len(refreshes) = 1
       /\ refreshes[1].result
       /\ localStorage = StoredTokens(AccessTokenOf(1), RefreshTokenOf(1))

\* The signal of call c is aborted in this step.
Cancels(c) == ~calls[c].aborted /\ calls'[c].aborted

\* C25: aborting a caller's signal touches neither the refresh in flight,
\* nor the marker, nor the token store, nor any other call; the refresh a
\* cancelled caller waits for still settles, stores the pair it obtained
\* when it succeeds, and hands its outcome to every call waiting for it.
C25_CancelKeepsRefresh ==
    [][/\ \A c \in CallIds :
            Cancels(c) =>
               /\ refreshes' = refreshes
               /\ refreshPromise' = refreshPromise
               /\ localStorage' = localStorage
               /\ \A d \in CallIds \ {c} : calls'[d] = calls[d]
       /\ \A r \in RefreshIds :
            Settles(r) =>
               /\ refreshes'[r].resp # "pending"
               /\ refreshes'[r].result =>
                     /\ refreshes'[r].post = refreshes'[r].data
                     /\ localStorage' = refreshes'[r].data
               /\ \A c \in CallIds :
                     (calls[c].pc = "refresh" /\ calls[c].rid = r) =>
                        calls'[c].refreshed = AsText(refreshes'[r].result)]_vars

\* One of two callers waiting for a refresh was cancelled; the refresh
\* succeeded, stored its pair and handed true to both.
C25_Witness ==
    \E c1, c2 \in CallIds :
       /\ c1 # c2
       /\ calls[c1].aborted
       /\ calls[c1].rid = 1 /\ calls[c1].refreshed = "true"
       /\ ~calls[c2].aborted
       /\ calls[c2].rid = 1 /\ calls[c2].refreshed = "true"
       /\ refreshes[1].result
       /\ localStorage = StoredTokens(AccessTokenOf(1), RefreshTokenOf(1))

\* C26: when every network call eventually settles, every apiFetch call
\* that was made eventually returns or throws, whatever the other calls do;
\* it makes at most two network calls of its own and invokes refreshTokens
\* at most once.  A call that was made is never idle again and a completed
\* call stays completed, so the calls end up all idle or completed exactly
\* when each call that was made completes.
C26_Termination ==
    /\ [](\A c \in CallIds : calls[c].dispatches <= 2)
    /\ [][\A c \in CallIds :
             /\ calls[c].rid # -1 /\ ~Completes(c) =>
                   calls'[c].rid = calls[c].rid
             /\ calls[c].refreshed # "none" /\ ~Completes(c) =>
                   calls'[c].refreshed = calls[c].refreshed
             /\ calls[c].pc # "idle" => calls'[c].pc # "idle"
             /\ calls[c].pc = "done" => calls'[c] = calls[c]]_vars
    /\ <>[](\A c \in CallIds : calls[c].pc \in {"idle", "done"})

\* Every call has completed, after a refresh that succeeded and one that
\* failed.
C26_Witness ==
    /\ \A c \in CallIds : calls[c].pc = "done"
    /\ \E r \in Successful : TRUE
    /\ \E r \in RefreshIds : refreshes[r].phase = "settled" /\ ~refreshes[r].result
    /\ \E c \in CallIds : calls[c].outcome = "value"

\* C27 as stated: the response of an attempt is parsed before the retry
\* decision for it is evaluated, so a call invokes refreshTokens only once
\* parseResponse has been entered for the response.
C27_ParseBeforeRetryDecision ==
    [][\A c \in CallIds : InvokesRefresh(c) => calls[c].pc = "text"]_vars

\* C27: the Authorization header of a network call is built from the token
\* store as it is when the call is issued; the retry decision is taken on
\* the status when the response arrives, before the response is parsed; a
\* response that sent the call to the refresh is parsed only after the
\* refresh yielded false and is never parsed when it yielded true (the call
\* is dispatched again instead); once parsing has begun the call neither
\* refreshes nor dispatches again.
C27_DecisionBeforeParse ==
    [][\A c \in CallIds :
          /\ calls'[c].dispatches > calls[c].dispatches =>
                /\ calls'[c].pc = "fetch"
                /\ calls'[c].dispatches = calls[c].dispatches + 1
                /\ calls'[c].auth =
                      AuthHeader(calls'[c].requiresAuth, localStorage')
          /\ InvokesRefresh(c) =>
                /\ calls[c].pc = "fetch"
                /\ calls'[c].status = 401
                /\ calls'[c].pc \in {"refresh", "text"}
                /\ calls'[c].pc = "text" => calls'[c].refreshed = "false"
          /\ calls[c].pc = "refresh" =>
                \/ calls'[c] = calls[c]
                \/ /\ calls'[c].refreshed = "true"
                   /\ calls'[c].pc = "fetch"
                   /\ calls'[c].dispatches = calls[c].dispatches + 1
                \/ /\ calls'[c].refreshed = "false"
                   /\ calls'[c].pc = "text"
                   /\ calls'[c].status = 401
                   /\ calls'[c].dispatches = calls[c].dispatches
          /\ calls[c].pc = "text" =>
                /\ calls'[c].pc \in {"text", "done"}
                /\ calls'[c].pc = "text" => calls'[c] = calls[c]]_vars

\* One call has been dispatched again with the refreshed token without its
\* 401 response being parsed, while the 401 response of another is being
\* parsed after a failed refresh.
C27_Witness ==
    \E c, d \in CallIds :
       /\ calls[c].pc = "fetch"
       /\ calls[c].dispatches = 2
       /\ calls[c].refreshed = "true"
       /\ calls[c].auth = AccessTokenOf(1)
       /\ calls[d].pc = "text"
       /\ calls[d].status = 401
       /\ calls[d].refreshed = "false"
       /\ calls[d].rid = 2

----------------------------------------------------------------------------
\* auth.ts: authApi.logout, run next to the other calls of the application

\* A logout request that leaves requiresAuth to its default.
LogoutOptionDefault == "undefined"

\* auth.ts line 44: requiresAuth: false.
LogoutOption == "false"

\* A logout without the catch handler: a failure of the request rejects it.
PropagateFailures(outcome) ==
    IF outcome = "value" THEN "fulfilled" ELSE "rejected"

\* auth.ts lines 45-47: .catch(() => {}) turns every rejection of the
\* request into a fulfilled promise; a fulfilled one passes through.
SwallowFailures(outcome) ==
    IF outcome = "value" THEN "fulfilled" ELSE "fulfilled"

\* authApi.logout has not been called.
NoLogout ==
    [fn |-> "authApi.logout", started |-> FALSE, call |-> 0, sent |-> Null,
     atStart |-> NoTokens]

LogoutInit ==
    /\ browser \in BOOLEAN
    /\ localStorage \in
         IF browser
         THEN {NoTokens, StoredTokens(AccessTokenOf(0), RefreshTokenOf(0))}
         ELSE {NoTokens}
    /\ refreshPromise = 0
    /\ refreshes = <<>>
    /\ calls = [c \in CallIds |-> IdleCall]
    /\ session = NoSession
    /\ probe = NoLogout

\* The application calls authApi.logout(): auth.ts lines 35-44 and apiFetch
\* up to its fetch().  With no refresh token stored it returns at once
\* (lines 37-39); otherwise it puts the token in the body of a POST.
LogoutStarts ==
    /\ probe.fn = "authApi.logout"
    /\ ~probe.started
    /\ IF ~Truthy(getRefreshToken(localStorage))
       THEN /\ probe' = [probe EXCEPT !.started = TRUE,
                                      !.atStart = localStorage]
            /\ UNCHANGED calls
       ELSE \E c \in CallIds :
               /\ calls[c].pc = "idle"
               /\ \A d \in 1..(c - 1) : calls[d].pc # "idle"
               /\ calls' = [calls EXCEPT ![c] =
                              Dispatch([@ EXCEPT !.requiresAuth =
                                                   RequiresAuth(LogoutOption)],
                                       localStorage, TRUE)]
               /\ probe' = [probe EXCEPT !.started = TRUE, !.call = c,
                                         !.sent = getRefreshToken(localStorage),
                                         !.atStart = localStorage]
    /\ UNCHANGED <<browser, localStorage, refreshPromise, refreshes, session>>

LogoutNext ==
    \/ Next
    \/ LogoutStarts

LogoutSpec == LogoutInit /\ [][LogoutNext]_vars

\* The promise authApi.logout returned: pending | fulfilled | rejected.
LogoutOutcome ==
    IF ~probe.started THEN "none"
    ELSE IF probe.call = 0 THEN "fulfilled"
    ELSE IF calls[probe.call].pc # "done" THEN "pending"
    ELSE SwallowFailures(calls[probe.call].outcome)

\* C28: authApi.logout never rejects.  With no refresh token stored it is
\* fulfilled at once and makes no network call; otherwise it makes exactly
\* one network call, without Authorization header, carrying the refresh
\* token that was stored.  Whatever the answer (ApiError, transport error,
\* unreadable body), no step of that call invokes refreshTokens, dispatches
\* again or changes the token store.
C28_BestEffortLogout ==
    /\ [](/\ LogoutOutcome # "rejected"
          /\ (probe.started /\ probe.call = 0) =>
                ~Truthy(getRefreshToken(probe.atStart))
          /\ (probe.started /\ probe.call # 0) =>
                /\ Truthy(probe.sent)
                /\ probe.sent = getRefreshToken(probe.atStart)
                /\ calls[probe.call].rid = -1
                /\ calls[probe.call].dispatches <= 1
                /\ calls[probe.call].auth = Null
                /\ calls[probe.call].pc \in {"fetch", "text", "done"})
    /\ [][/\ (~probe.started /\ probe'.started) =>
                /\ localStorage' = localStorage
                /\ refreshes' = refreshes
                /\ refreshPromise' = refreshPromise
                /\ probe'.call = 0 => calls' = calls
                /\ probe'.call # 0 =>
                      /\ calls'[probe'.call].pc = "fetch"
                      /\ calls'[probe'.call].dispatches = 1
                      /\ \A d \in CallIds \ {probe'.call} :
                            calls'[d] = calls[d]
          /\ (probe.started /\ probe.call # 0
                /\ calls'[probe.call] # calls[probe.call]) =>
                /\ localStorage' = localStorage
                /\ refreshes' = refreshes
                /\ refreshPromise' = refreshPromise
                /\ calls'[probe.call].dispatches <= calls[probe.call].dispatches
                /\ \A d \in CallIds \ {probe.call} : calls'[d] = calls[d]]_vars

\* The logout request was answered 401 and authApi.logout is fulfilled, the
\* pair still stored, no refresh made.
C28_Witness ==
    /\ probe.fn = "authApi.logout"
    /\ probe.started
    /\ probe.call # 0
    /\ calls[probe.call].outcome = "ApiError"
    /\ calls[probe.call].errStatus = 401
    /\ LogoutOutcome = "fulfilled"
    /\ refreshes = <<>>
    /\ localStorage = StoredTokens(AccessTokenOf(0), RefreshTokenOf(0))

\* C29 as stated: once a successful refresh has stored its pair, a call
\* that was dispatched with an older access token and whose late 401 sends
\* it through a failed refresh of its own does not remove that pair.
C29_NoStalePurge ==
    [][\A c \in CallIds :
          (/\ calls[c].refreshed = "none"
           /\ calls'[c].refreshed = "false"
           /\ Successful # {}
           /\ localStorage = refreshes[Latest(Successful)].data
           /\ calls[c].tokAtDispatch # getAccessToken(localStorage)) =>
             localStorage' = localStorage]_vars

----------------------------------------------------------------------------
\* dashboard/page.tsx: DashboardPage under the session provider

\* A guard that does not wait for the session check.
ShouldRedirectWhileLoading(isLoading, authenticated) == ~authenticated

\* Lines 23-25: the condition under which the effect pushes "/login".
ShouldRedirect(isLoading, authenticated) == ~isLoading /\ ~authenticated

\* Lines 32-50 and below: what the page renders.
DashboardView(isLoading, authenticated) ==
    IF isLoading THEN "Loading..."
    ELSE IF ~authenticated THEN "Redirecting..."
    ELSE "content"

\* The page has not rendered.
NoDashboard ==
    [fn |-> "DashboardPage", rendered |-> FALSE,
     seen |-> [isLoading |-> TRUE, isAuthenticated |-> FALSE],
     view |-> "none", effect |-> "none"]

\* What localStorage may hold under "user" and "token" when the provider
\* mounts.  The storage belongs to the origin, so besides what login and
\* logout leave it may hold one key without the other.
StoredSessions ==
    LET u == Stringify(User(<<"1">>, <<"a", "@", "x">>, <<"a">>)) IN
    {NoSessionKeys,
     SessionKeys(u, MockToken(1), ToString(1)),
     SessionKeys(CorruptText, MockToken(1), ToString(1)),
     SessionKeys(u, Null, Null),
     SessionKeys(NoText, MockToken(1), ToString(1))}

DashboardInit ==
    /\ browser = TRUE
    /\ localStorage \in
         {NoTokens, StoredTokens(AccessTokenOf(0), RefreshTokenOf(0))}
    /\ refreshPromise = 0
    /\ refreshes = <<>>
    /\ calls = [c \in CallIds |-> IdleCall]
    /\ probe = NoDashboard
    /\ \E keys \in StoredSessions :
          session = [mounted   |-> TRUE,
                     checked   |-> FALSE,
                     user      |-> NullUser,
                     isLoading |-> TRUE,
                     keys      |-> keys,
                     route     |-> Null,
                     pending   |-> NoPending,
                     last      |-> NoLast]

\* Lines 18-50: the page renders with the values the provider publishes
\* (AuthContext.tsx lines 143-150) and its effect runs (lines 22-26).  This
\* happens when the page mounts and whenever isLoading or isAuthenticated
\* has changed.
DashboardPage ==
    /\ probe.fn = "DashboardPage"
    /\ session.mounted
    /\ LET isLoading     == session.isLoading
           authenticated == ~session.user.null
           now  == [isLoading |-> isLoading, isAuthenticated |-> authenticated]
           push == ShouldRedirect(isLoading, authenticated)
       IN  /\ ~probe.rendered \/ probe.seen # now
           /\ probe' = [probe EXCEPT
                          !.rendered = TRUE,
                          !.seen = now,
                          !.view = DashboardView(isLoading, authenticated),
                          !.effect = IF push THEN "push" ELSE "none"]
           /\ session' = IF push
                         THEN [session EXCEPT !.route = "/login"]
                         ELSE session
    /\ UNCHANGED <<browser, localStorage, refreshPromise, refreshes, calls>>

DashboardNext ==
    \/ SessionNext
    \/ DashboardPage

DashboardSpec == DashboardInit /\ [][DashboardNext]_vars

\* The page renders in this step.
Renders == probe' # probe

\* C30: isAuthenticated is true exactly when the session user is not null.
\* The page shows its content only when rendered with isLoading false and
\* isAuthenticated true, and its effect pushes "/login" only when rendered
\* with isLoading false and isAuthenticated false, which never happens
\* before the session check has run.  The session check ends with isLoading
\* false and sets a user only when "user" and "token" are both stored.
C30_DashboardGuard ==
    /\ [](/\ isAuthenticated <=> session.user # NullUser
          /\ ~session.isLoading => session.checked
          /\ probe.view = "content" =>
                ~probe.seen.isLoading /\ probe.seen.isAuthenticated
          /\ probe.effect = "push" =>
                ~probe.seen.isLoading /\ ~probe.seen.isAuthenticated)
    /\ [][/\ Renders =>
                /\ probe'.seen.isLoading = session.isLoading
                /\ probe'.seen.isAuthenticated = isAuthenticated
                /\ probe'.view = "content" <=>
                      (~session.isLoading /\ isAuthenticated)
                /\ probe'.effect = "push" <=>
                      (~session.isLoading /\ ~isAuthenticated)
                /\ probe'.effect = "push" => session.checked
                /\ session'.user = session.user
                /\ session'.isLoading = session.isLoading
          /\ (~session.checked /\ session'.checked) =>
                /\ ~session'.isLoading
                /\ session'.user # NullUser =>
                      /\ session.keys.user.kind # "absent"
                      /\ Truthy(session.keys.token)
                      /\ session'.user = session.keys.user.user]_vars

\* The page rendered "Loading..." without redirecting before the session
\* check, the check found no session, and the page then pushed "/login".
C30_Witness ==
    /\ probe.fn = "DashboardPage"
    /\ probe.view = "Redirecting..."
    /\ probe.effect = "push"
    /\ session.checked
    /\ session.last = NoLast
    /\ session.keys.user.kind = "json"
    /\ session.keys.token = Null
    /\ session.route = "/login"

====
